---- MODULE Spec2Model ----
(***************************************************************************)
(* Credential chaincode (credential-demo/chaincode-go/main.go): two        *)
(* private data collections, a public audit trail of composite keys, and   *)
(* the transactions that issue, read, share, verify and revoke a           *)
(* credential.  A transaction runs against the committed state and its     *)
(* writes are applied together when, and only when, it returns no error.   *)
(*                                                                         *)
(* Go strings are sequences of characters.  Status, MSP ids and actions    *)
(* are ASCII literals of the source and are kept as atoms.  A SHA-256      *)
(* digest is modelled as an injective tag of its preimage.                 *)
(***************************************************************************)
EXTENDS Naturals, Sequences, FiniteSets, TLC

\* ------------------------------------------------------------------ bounds

\* committed transactions in one behaviour (each consumes one transaction id)
MaxTx == 3

\* committed transactions in one behaviour of the scenario
MaxScenarioTx == 4

\* transactions endorsed in one behaviour of the race
MaxRaceTx == 3

\* requests the client application serves in one behaviour, and the transactions
\* committed in it
MaxFlows == 2
MaxFlowTx == 4

TxIDs == 1..MaxTx

\* ------------------------------------------------------------------ strings

\* a byte that is not valid UTF-8, and U+FFFD, which encoding/json puts in its place
BAD  == "\\xff"
REPL == "\\ufffd"

EmptyStr == << >>

\* encoding/json coerces a string to valid UTF-8 in Marshal and in Unmarshal
Coerce(s) == [i \in 1..Len(s) |-> IF s[i] = BAD THEN REPL ELSE s[i]]

ValidUTF8(s) == \A i \in 1..Len(s) : s[i] # BAD

\* ------------------------------------------------------------------ data model

org1PDC == "Org1PrivateCollection"
org2PDC == "Org2PrivateCollection"

MSPs == {"Org1MSP", "Org2MSP"}

\* the seven fields the hash is computed over, in the order of canonicalString
HashedFields == <<"CredID", "StudentID", "StudentName", "University", "Degree", "GPA", "IssueDate">>

NoHash == << >>

\* canonical string over which the hash is computed (order is fixed)
canonicalString(c) ==
    c.CredID \o <<"|">> \o c.StudentID \o <<"|">> \o c.StudentName \o <<"|">> \o
    c.University \o <<"|">> \o c.Degree \o <<"|">> \o c.GPA \o <<"|">> \o c.IssueDate

\* hex(SHA-256(s)): never the empty string, and taken to be collision free
sha256Hex(s) == <<"sha256", s>>

\* json.Marshal(Credential): every string coerced to valid UTF-8; the digest is hex
\* and the status and MSP ids are ASCII, which pass unchanged
jsonMarshal(c) ==
    [c EXCEPT !.CredID = Coerce(@), !.StudentID = Coerce(@), !.StudentName = Coerce(@),
              !.University = Coerce(@), !.Degree = Coerce(@), !.GPA = Coerce(@),
              !.IssueDate = Coerce(@)]

\* a document that is not JSON
BadJSON == [malformed |-> TRUE]

\* json.Unmarshal into a Credential: <<>> on a syntax error, else the decoded value,
\* its strings coerced to valid UTF-8
jsonUnmarshal(doc) ==
    IF doc = BadJSON THEN << >> ELSE << jsonMarshal(doc) >>

\* ------------------------------------------------------------------ inputs

c1   == <<"c", "1">>
cBad == <<"c", BAD>>

\* ids a caller passes to the id-taking transactions
CredIDs == {EmptyStr, c1, cBad}

\* (studentID, studentName, gpa) of the credentials callers submit; the first two
\* differ only in where the delimiter falls, the third carries a non-UTF-8 byte
FieldTuples ==
    { << <<"a", "|", "b">>, <<"c">>, <<"3">> >>,
      << <<"a">>, <<"b", "|", "c">>, <<"3">> >>,
      << <<"a">>, <<"c">>, <<BAD>> >> }

Fields(id, t) ==
    [CredID |-> id, StudentID |-> t[1], StudentName |-> t[2], University |-> <<"u">>,
     Degree |-> <<"d">>, GPA |-> t[3], IssueDate |-> <<"t">>]

\* arguments of IssueCredential (the eighth, ignored, argument is left out)
IssueArgs == { Fields(id, t) : id \in CredIDs, t \in FieldTuples }

Credential(f, hash, status, owner, shared) ==
    [CredID |-> f.CredID, StudentID |-> f.StudentID, StudentName |-> f.StudentName,
     University |-> f.University, Degree |-> f.Degree, GPA |-> f.GPA,
     IssueDate |-> f.IssueDate, Hash |-> hash, Status |-> status,
     OwnerMSP |-> owner, SharedWithMSP |-> shared]

\* digests a payload may carry: none, or the digest of some submitted credential
\* as issued (over the raw arguments) or as recomputed after decoding
PayloadHashes(id) ==
    {NoHash} \cup { sha256Hex(canonicalString(Fields(id, t))) : t \in FieldTuples }
             \cup { sha256Hex(canonicalString(jsonMarshal(Fields(id, t)))) : t \in FieldTuples }

\* JSON documents passed to StoreCredentialForOrg2
PayloadsOf(id) ==
    { Credential(Fields(id, t), h, st, "Org1MSP", sh) :
        t \in FieldTuples, h \in PayloadHashes(id),
        st \in {"issued", "revoked"}, sh \in {"", "Org2MSP"} }

\* payloads without an id: one credential, with no digest and with its own
NoIDPayloads ==
    LET f == Fields(EmptyStr, <<<<"a">>, <<"c">>, <<"3">>>>)
    IN  { Credential(f, h, "issued", "Org1MSP", "") : h \in {NoHash, sha256Hex(canonicalString(f))} }

Payloads == {BadJSON} \cup NoIDPayloads \cup PayloadsOf(c1)

\* ------------------------------------------------------------------ state

VARIABLES
    pdc,     \* pdc[collection]: key -> stored JSON (a partial function)
    events,  \* public state: composite key <<"evt", credID, txID>> -> AuditEvent
    chain,   \* the committed transactions' composite keys, in commit order
    ret,     \* the invocation whose response the caller is receiving: function,
             \* caller, argument, error, value (NoCall between invocations)
    pending, \* transactions endorsed and submitted, not yet ordered and validated
    flows    \* the requests the client application is serving: route, step, record read

vars == <<pdc, events, chain, ret, pending, flows>>

\* ------------------------------------------------------------------ stub

Nil == << >>

\* stub.GetPrivateData: nil when the key is absent
getPDC(collection, key) ==
    IF key \in DOMAIN pdc[collection] THEN << pdc[collection][key] >> ELSE Nil

\* a transaction's outcome: its error, its return value and its write set
Outcome(err, val, writes, audit) == [err |-> err, val |-> val, writes |-> writes, audit |-> audit]

Fail(err) == Outcome(err, Nil, {}, {})

\* stub.PutPrivateData into the write set
putPDC(collection, key, val) == {[collection |-> collection, key |-> key, val |-> val]}

\* stub.CreateCompositeKey rejects an attribute that is not valid UTF-8
CompositeKeyOK(credID) == ValidUTF8(credID)

\* the caller's MSP id is not recorded
putAudit_NoCaller(ctx, credID, action, note) ==
    {[key |-> <<"evt", credID, ctx.txID>>,
      val |-> [TxID |-> ctx.txID, Action |-> action, MSPID |-> "", Note |-> note]]}

\* the key is built from the credID alone
putAudit_KeyWithoutTx(ctx, credID, action, note) ==
    {[key |-> <<"evt", credID, 0>>,
      val |-> [TxID |-> ctx.txID, Action |-> action, MSPID |-> ctx.msp, Note |-> note]]}

\* putAudit: the event of this transaction under the key ("evt", credID, txID)
putAudit(ctx, credID, action, note) ==
    {[key |-> <<"evt", credID, ctx.txID>>,
      val |-> [TxID |-> ctx.txID, Action |-> action, MSPID |-> ctx.msp, Note |-> note]]}

\* the existence check reads the other collection
CredentialExists_Org2(credID) == getPDC(org2PDC, credID) # Nil

\* CredentialExists checks Org1's PDC for a key
CredentialExists(credID) == getPDC(org1PDC, credID) # Nil

\* ------------------------------------------------------------------ transactions

\* the digest is only required to be present
HashMismatch_PresenceOnly(cred) == cred.Hash = NoHash

\* && in place of ||: an empty digest passes
HashMismatch_And(cred) ==
    cred.Hash # NoHash /\ cred.Hash # sha256Hex(canonicalString(cred))

\* cred.Hash == "" || cred.Hash != computed
HashMismatch(cred) ==
    cred.Hash = NoHash \/ cred.Hash # sha256Hex(canonicalString(cred))

\* the id is written whether or not it is already there
IssueCredential_Overwrite(ctx, a) ==
    IF a.CredID = EmptyStr THEN Fail("ValidationError")
    ELSE IF ~CompositeKeyOK(a.CredID) THEN Fail("StoreError")
    ELSE LET cred0 == Credential(a, NoHash, "issued", ctx.msp, "")
             cred  == [cred0 EXCEPT !.Hash = sha256Hex(canonicalString(cred0))]
         IN  Outcome("ok", Nil, putPDC(org1PDC, a.CredID, jsonMarshal(cred)),
                     putAudit(ctx, a.CredID, "ISSUE", ""))

IssueCredential(ctx, a) ==
    IF a.CredID = EmptyStr THEN Fail("ValidationError")
    ELSE IF CredentialExists(a.CredID) THEN Fail("ConflictError")
    ELSE LET cred0 == Credential(a, NoHash, "issued", ctx.msp, "")
             cred  == [cred0 EXCEPT !.Hash = sha256Hex(canonicalString(cred0))]
             b     == jsonMarshal(cred)
         IN  \* putAudit fails after putPDC has put the record into the write set
             IF ~CompositeKeyOK(a.CredID)
               THEN Outcome("StoreError", Nil, putPDC(org1PDC, a.CredID, b), {})
             ELSE Outcome("ok", Nil, putPDC(org1PDC, a.CredID, b),
                          putAudit(ctx, a.CredID, "ISSUE", ""))

\* the digest of the payload is not checked
StoreCredentialForOrg2_NoHashCheck(ctx, credJSON) ==
    IF ctx.msp # "Org2MSP" THEN Fail("AuthorizationError")
    ELSE LET dec == jsonUnmarshal(credJSON) IN
         IF dec = Nil THEN Fail("ValidationError")
         ELSE LET cred == dec[1] IN
              IF cred.CredID = EmptyStr THEN Fail("ValidationError")
              ELSE IF ~CompositeKeyOK(cred.CredID) THEN Fail("StoreError")
              ELSE Outcome("ok", Nil,
                           putPDC(org2PDC, cred.CredID,
                                  jsonMarshal([cred EXCEPT !.SharedWithMSP = "Org2MSP"])),
                           putAudit(ctx, cred.CredID, "SHARE_TO_ORG2", ""))

\* the id of the payload is not checked
StoreCredentialForOrg2_NoIDCheck(ctx, credJSON) ==
    IF ctx.msp # "Org2MSP" THEN Fail("AuthorizationError")
    ELSE LET dec == jsonUnmarshal(credJSON) IN
         IF dec = Nil THEN Fail("ValidationError")
         ELSE LET cred == dec[1] IN
              IF HashMismatch(cred) THEN Fail("IntegrityError")
              ELSE IF ~CompositeKeyOK(cred.CredID) THEN Fail("StoreError")
              ELSE Outcome("ok", Nil,
                           putPDC(org2PDC, cred.CredID,
                                  jsonMarshal([cred EXCEPT !.SharedWithMSP = "Org2MSP"])),
                           putAudit(ctx, cred.CredID, "SHARE_TO_ORG2", ""))

\* the shared-with field is stored as the payload carries it
StoreCredentialForOrg2_KeepShared(ctx, credJSON) ==
    IF ctx.msp # "Org2MSP" THEN Fail("AuthorizationError")
    ELSE LET dec == jsonUnmarshal(credJSON) IN
         IF dec = Nil THEN Fail("ValidationError")
         ELSE LET cred == dec[1] IN
              IF cred.CredID = EmptyStr THEN Fail("ValidationError")
              ELSE IF HashMismatch(cred) THEN Fail("IntegrityError")
              ELSE IF ~CompositeKeyOK(cred.CredID) THEN Fail("StoreError")
              ELSE Outcome("ok", Nil, putPDC(org2PDC, cred.CredID, jsonMarshal(cred)),
                           putAudit(ctx, cred.CredID, "SHARE_TO_ORG2", ""))

StoreCredentialForOrg2(ctx, credJSON) ==
    IF ctx.msp # "Org2MSP" THEN Fail("AuthorizationError")
    ELSE LET dec == jsonUnmarshal(credJSON) IN
         IF dec = Nil THEN Fail("ValidationError")
         ELSE LET cred == dec[1] IN
              IF cred.CredID = EmptyStr THEN Fail("ValidationError")
              ELSE IF HashMismatch(cred) THEN Fail("IntegrityError")
              ELSE LET stored == [cred EXCEPT !.SharedWithMSP = "Org2MSP"]
                       b      == jsonMarshal(stored)
                   IN  IF ~CompositeKeyOK(cred.CredID)
                         THEN Outcome("StoreError", Nil, putPDC(org2PDC, cred.CredID, b), {})
                       ELSE Outcome("ok", Nil, putPDC(org2PDC, cred.CredID, b),
                                    putAudit(ctx, cred.CredID, "SHARE_TO_ORG2", ""))

\* the revocation is also written to the verifier's copy
RevokeCredential_Sync(ctx, credID) ==
    IF ctx.msp # "Org1MSP" THEN Fail("AuthorizationError")
    ELSE LET raw == getPDC(org1PDC, credID) IN
         IF raw = Nil THEN Fail("NotFoundError")
         ELSE LET cred == [jsonUnmarshal(raw[1])[1] EXCEPT !.Status = "revoked"]
                  b    == jsonMarshal(cred)
              IN  IF ~CompositeKeyOK(credID) THEN Fail("StoreError")
                  ELSE Outcome("ok", Nil,
                               putPDC(org1PDC, credID, b) \cup
                                 (IF getPDC(org2PDC, credID) = Nil THEN {}
                                  ELSE putPDC(org2PDC, credID,
                                              [b EXCEPT !.SharedWithMSP = "Org2MSP"])),
                               putAudit(ctx, credID, "REVOKE", ""))

\* a record that is already revoked is left alone, and no event is written
RevokeCredential_OnceOnly(ctx, credID) ==
    IF ctx.msp # "Org1MSP" THEN Fail("AuthorizationError")
    ELSE LET raw == getPDC(org1PDC, credID) IN
         IF raw = Nil THEN Fail("NotFoundError")
         ELSE IF jsonUnmarshal(raw[1])[1].Status = "revoked" THEN Outcome("ok", Nil, {}, {})
         ELSE IF ~CompositeKeyOK(credID) THEN Fail("StoreError")
         ELSE Outcome("ok", Nil,
                      putPDC(org1PDC, credID,
                             jsonMarshal([jsonUnmarshal(raw[1])[1] EXCEPT !.Status = "revoked"])),
                      putAudit(ctx, credID, "REVOKE", ""))

RevokeCredential(ctx, credID) ==
    IF ctx.msp # "Org1MSP" THEN Fail("AuthorizationError")
    ELSE LET raw == getPDC(org1PDC, credID) IN
         IF raw = Nil THEN Fail("NotFoundError")
         ELSE LET cred == [jsonUnmarshal(raw[1])[1] EXCEPT !.Status = "revoked"]
                  b    == jsonMarshal(cred)
              IN  IF ~CompositeKeyOK(credID)
                    THEN Outcome("StoreError", Nil, putPDC(org1PDC, credID, b), {})
                  ELSE Outcome("ok", Nil, putPDC(org1PDC, credID, b),
                               putAudit(ctx, credID, "REVOKE", ""))

\* ------------------------------------------------------------------ queries

ReadCredential(ctx, credID) ==
    LET raw == getPDC(org1PDC, credID) IN
    IF raw = Nil THEN Fail("NotFoundError")
    ELSE Outcome("ok", << jsonUnmarshal(raw[1])[1] >>, {}, {})

\* the caller's organization is not checked
VerifyCredential_NoAuth(ctx, credID) ==
    LET raw == getPDC(org2PDC, credID) IN
    IF raw = Nil THEN Fail("NotFoundError")
    ELSE Outcome("ok", << jsonUnmarshal(raw[1])[1] >>, {}, {})

VerifyCredential(ctx, credID) ==
    IF ctx.msp # "Org2MSP" THEN Fail("AuthorizationError")
    ELSE LET raw == getPDC(org2PDC, credID) IN
         IF raw = Nil THEN Fail("NotFoundError")
         ELSE LET cred == jsonUnmarshal(raw[1])[1] IN
              Outcome("ok",
                      << IF cred.SharedWithMSP = ""
                           THEN [cred EXCEPT !.SharedWithMSP = "Org2MSP"] ELSE cred >>,
                      {}, {})

\* the report is computed from the issuer's record
VerifyCredentialIntegrity_Org1(ctx, credID) ==
    IF ctx.msp # "Org2MSP" THEN Fail("AuthorizationError")
    ELSE LET raw == getPDC(org1PDC, credID) IN
         IF raw = Nil THEN Fail("NotFoundError")
         ELSE LET cred     == jsonUnmarshal(raw[1])[1]
                  computed == sha256Hex(canonicalString(cred))
              IN  Outcome("ok",
                          << [CredID |-> cred.CredID, StoredHash |-> cred.Hash,
                              ComputedHash |-> computed, IsHashValid |-> (cred.Hash = computed),
                              SharedWithMSP |-> cred.SharedWithMSP, Status |-> cred.Status] >>,
                          {}, {})

VerifyCredentialIntegrity(ctx, credID) ==
    IF ctx.msp # "Org2MSP" THEN Fail("AuthorizationError")
    ELSE LET raw == getPDC(org2PDC, credID) IN
         IF raw = Nil THEN Fail("NotFoundError")
         ELSE LET cred     == jsonUnmarshal(raw[1])[1]
                  computed == sha256Hex(canonicalString(cred))
              IN  Outcome("ok",
                          << [CredID |-> cred.CredID, StoredHash |-> cred.Hash,
                              ComputedHash |-> computed, IsHashValid |-> (cred.Hash = computed),
                              SharedWithMSP |-> cred.SharedWithMSP, Status |-> cred.Status] >>,
                          {}, {})

\* the iterator of GetStateByPartialCompositeKey walks the keys in key order:
\* under one credID, in the order of the transaction ids
RECURSIVE KeyOrder(_)
KeyOrder(txs) ==
    IF txs = {} THEN << >>
    ELSE LET m == CHOOSE x \in txs : \A y \in txs : x <= y
         IN  <<m>> \o KeyOrder(txs \ {m})

\* no array is returned for an id without events
ListHistory_NilWhenEmpty(ctx, credID) ==
    IF ~CompositeKeyOK(credID) THEN Fail("StoreError")
    ELSE LET txs == KeyOrder({ k[3] : k \in { x \in DOMAIN events : x[2] = credID } })
         IN  IF txs = << >> THEN Outcome("ok", Nil, {}, {})
             ELSE Outcome("ok", << [i \in 1..Len(txs) |-> events[<<"evt", credID, txs[i]>>]] >>,
                          {}, {})

\* the range of the partial key ("evt", credID) is built by CreateCompositeKey,
\* which fails on an id that is not valid UTF-8; the array starts empty
ListHistory(ctx, credID) ==
    IF ~CompositeKeyOK(credID) THEN Fail("StoreError")
    ELSE LET txs == KeyOrder({ k[3] : k \in { x \in DOMAIN events : x[2] = credID } })
         IN  Outcome("ok", << [i \in 1..Len(txs) |-> events[<<"evt", credID, txs[i]>>]] >>,
                     {}, {})

\* ------------------------------------------------------------------ commit

Apply(store, collection, writes) ==
    LET ws   == { w \in writes : w.collection = collection }
        keys == DOMAIN store \cup { w.key : w \in ws }
    IN  [k \in keys |-> IF \E w \in ws : w.key = k
                          THEN (CHOOSE w \in ws : w.key = k).val
                          ELSE store[k]]

ApplyEvents(evs, audit) ==
    [k \in DOMAIN evs \cup { e.key : e \in audit } |->
        IF \E e \in audit : e.key = k THEN (CHOOSE e \in audit : e.key = k).val ELSE evs[k]]

RECURSIVE SeqOfSet(_)
SeqOfSet(S) == IF S = {} THEN << >> ELSE LET x == CHOOSE x \in S : TRUE IN <<x>> \o SeqOfSet(S \ {x})

\* the private writes of a transaction that returned an error are committed
Commit_WritesOfFailed(o) ==
    /\ pdc' = [coll \in DOMAIN pdc |-> Apply(pdc[coll], coll, o.writes)]
    /\ events' = ApplyEvents(events, o.audit)
    /\ chain' = chain \o SeqOfSet({ e.key : e \in o.audit })

\* the transaction's writes reach the state only when it returned no error
Commit(o) ==
    IF o.err = "ok"
      THEN /\ pdc' = [coll \in DOMAIN pdc |-> Apply(pdc[coll], coll, o.writes)]
           /\ events' = ApplyEvents(events, o.audit)
           /\ chain' = chain \o SeqOfSet({ e.key : e \in o.audit })
      ELSE UNCHANGED <<pdc, events, chain>>

UsedTxIDs == { k[3] : k \in DOMAIN events }

Ctx(msp, txID) == [msp |-> msp, txID |-> txID]

NoCall == [fn |-> "", msp |-> "", arg |-> EmptyStr, err |-> "ok", val |-> Nil]

\* invocations are served one at a time: the next starts once the response is out
Idle == ret = NoCall

\* the transaction runs and commits in one step, and the caller gets its result
Invoke(fn, ctx, arg, o) ==
    /\ Commit(o)
    /\ ret' = [fn |-> fn, msp |-> ctx.msp, arg |-> arg, err |-> o.err, val |-> o.val]

Call(fn, ctx, arg, o) ==
    /\ Invoke(fn, ctx, arg, o)
    /\ UNCHANGED <<pending, flows>>

\* ------------------------------------------------------------------ actions

\* A transaction id only matters to a transaction that reaches putAudit: one that
\* fails is invoked under any id, one that commits takes an id of txs that no
\* committed transaction has.
IssueBy(msps, args, txs) ==
    /\ Idle
    /\ \E msp \in msps, a \in args :
           IF IssueCredential(Ctx(msp, 0), a).err # "ok"
             THEN Call("IssueCredential", Ctx(msp, 0), a, IssueCredential(Ctx(msp, 0), a))
             ELSE \E tx \in txs \ UsedTxIDs :
                    Call("IssueCredential", Ctx(msp, tx), a, IssueCredential(Ctx(msp, tx), a))

StoreBy(msps, payloads, txs) ==
    /\ Idle
    /\ \E msp \in msps, p \in payloads :
           IF StoreCredentialForOrg2(Ctx(msp, 0), p).err # "ok"
             THEN Call("StoreCredentialForOrg2", Ctx(msp, 0), p,
                       StoreCredentialForOrg2(Ctx(msp, 0), p))
             ELSE \E tx \in txs \ UsedTxIDs :
                    Call("StoreCredentialForOrg2", Ctx(msp, tx), p,
                         StoreCredentialForOrg2(Ctx(msp, tx), p))

RevokeBy(msps, ids, txs) ==
    /\ Idle
    /\ \E msp \in msps, id \in ids :
           IF RevokeCredential(Ctx(msp, 0), id).err # "ok"
             THEN Call("RevokeCredential", Ctx(msp, 0), id, RevokeCredential(Ctx(msp, 0), id))
             ELSE \E tx \in txs \ UsedTxIDs :
                    Call("RevokeCredential", Ctx(msp, tx), id, RevokeCredential(Ctx(msp, tx), id))

ReadBy(msps, ids) ==
    /\ Idle
    /\ \E msp \in msps, id \in ids :
           Call("ReadCredential", Ctx(msp, 0), id, ReadCredential(Ctx(msp, 0), id))

VerifyBy(msps, ids) ==
    /\ Idle
    /\ \E msp \in msps, id \in ids :
           Call("VerifyCredential", Ctx(msp, 0), id, VerifyCredential(Ctx(msp, 0), id))

VerifyIntegrityBy(msps, ids) ==
    /\ Idle
    /\ \E msp \in msps, id \in ids :
           Call("VerifyCredentialIntegrity", Ctx(msp, 0), id,
                VerifyCredentialIntegrity(Ctx(msp, 0), id))

HistoryBy(msps, ids) ==
    /\ Idle
    /\ \E msp \in msps, id \in ids :
           Call("ListHistory", Ctx(msp, 0), id, ListHistory(Ctx(msp, 0), id))

\* the caller has the response
Respond ==
    /\ ret # NoCall
    /\ ret' = NoCall
    /\ UNCHANGED <<pdc, events, chain, pending, flows>>

Init ==
    /\ pdc = [coll \in {org1PDC, org2PDC} |-> << >>]
    /\ events = << >>
    /\ chain = << >>
    /\ ret = NoCall
    /\ pending = {}
    /\ flows = << >>

\* ------------------------------------------------------------------ any caller, any input

Issue == IssueBy(MSPs, IssueArgs, TxIDs)

Store == StoreBy(MSPs, Payloads, TxIDs)

Revoke == RevokeBy(MSPs, CredIDs, TxIDs)

Read == ReadBy(MSPs, CredIDs)

Verify == VerifyBy(MSPs, CredIDs)

VerifyIntegrity == VerifyIntegrityBy(MSPs, CredIDs)

History == HistoryBy(MSPs, CredIDs)

Next == Issue \/ Store \/ Revoke \/ Read \/ Verify \/ VerifyIntegrity \/ History \/ Respond

Spec == Init /\ [][Next]_vars

\* ------------------------------------------------------------------ the scenario

\* One credential, each organization calling its own functions, and every share a
\* relay of what ReadCredential returns at that moment (the /share and /revoke
\* routes of app-node/index.js pass the record on unchanged).
ScenarioIDs == {c1}

ScenarioTxIDs == 1..MaxScenarioTx

ReadResults ==
    { ReadCredential(Ctx("Org1MSP", 0), id).val[1] :
        id \in { x \in ScenarioIDs : ReadCredential(Ctx("Org1MSP", 0), x).err = "ok" } }

ScIssue == IssueBy({"Org1MSP"}, { Fields(id, t) : id \in ScenarioIDs, t \in FieldTuples }, ScenarioTxIDs)

ScShare == StoreBy({"Org2MSP"}, ReadResults, ScenarioTxIDs)

ScRevoke == RevokeBy({"Org1MSP"}, ScenarioIDs, ScenarioTxIDs)

ScVerifyIntegrity == VerifyIntegrityBy({"Org2MSP"}, ScenarioIDs)

NextScenario == ScIssue \/ ScShare \/ ScRevoke \/ ScVerifyIntegrity \/ Respond

SpecScenario == Init /\ [][NextScenario]_vars

\* ------------------------------------------------------------------ the race

\* Endorsement and commit apart: IssueCredential is simulated against the committed
\* state, which gives its read set and its write set; the transaction is ordered
\* later and validated against the state committed by then.

RaceTxIDs == 1..MaxRaceTx

\* the private keys a step of the chaincode writes, by the action of its event
WritersOf(collection) ==
    IF collection = org1PDC THEN {"ISSUE", "REVOKE"} ELSE {"SHARE_TO_ORG2"}

\* the version of a private key: the position in the chain of the transaction that
\* wrote it last, 0 for a key never written
KeyVersion(collection, key) ==
    LET ws == { i \in 1..Len(chain) :
                  chain[i][2] = key /\ events[chain[i]].Action \in WritersOf(collection) }
    IN  IF ws = {} THEN 0 ELSE CHOOSE i \in ws : \A j \in ws : j <= i

\* the existence check is not part of the simulation
IssueReads_None(a) == {}

\* what IssueCredential reads: the key of the credential in the issuer's collection
\* (CredentialExists), once the id is known not to be empty
IssueReads(a) ==
    IF a.CredID = EmptyStr THEN {} ELSE {[collection |-> org1PDC, key |-> a.CredID]}

PendingTxIDs == { t.ctx.txID : t \in pending }

\* endorse and submit: a proposal the chaincode refuses goes back to the caller with
\* its error; an endorsed one is handed over for ordering with its read versions
EndorseIssue ==
    /\ Idle
    /\ \E msp \in MSPs, a \in IssueArgs :
           IF IssueCredential(Ctx(msp, 0), a).err # "ok"
             THEN Call("IssueCredential", Ctx(msp, 0), a, IssueCredential(Ctx(msp, 0), a))
             ELSE \E tx \in RaceTxIDs \ (UsedTxIDs \cup PendingTxIDs) :
                    /\ pending' = pending \cup
                          {[ctx |-> Ctx(msp, tx), arg |-> a,
                            out |-> IssueCredential(Ctx(msp, tx), a),
                            reads |-> { [collection |-> r.collection, key |-> r.key,
                                         version |-> KeyVersion(r.collection, r.key)] :
                                        r \in IssueReads(a) }]}
                    /\ UNCHANGED <<pdc, events, chain, ret, flows>>

\* a read is still valid when the key has the version the simulation saw
ReadsValid(t) == \A r \in t.reads : KeyVersion(r.collection, r.key) = r.version

\* the next transaction in the order is validated: it commits when its reads are
\* still valid, and is marked as a read conflict, its writes dropped, when not
Validate ==
    /\ Idle
    /\ \E t \in pending :
           /\ pending' = pending \ {t}
           /\ UNCHANGED flows
           /\ IF ReadsValid(t)
                THEN Invoke("IssueCredential", t.ctx, t.arg, t.out)
                ELSE /\ ret' = [fn |-> "IssueCredential", msp |-> t.ctx.msp, arg |-> t.arg,
                                err |-> "MVCC_READ_CONFLICT", val |-> Nil]
                     /\ UNCHANGED <<pdc, events, chain>>

NextRace == EndorseIssue \/ Validate \/ Respond

SpecRace == Init /\ [][NextRace]_vars

\* ------------------------------------------------------------------ the client routes

StoreFn == "StoreCredentialForOrg2"

\* POST /share and POST /revoke of app-node/index.js: each request is a sequence of
\* separate transactions, and requests in progress interleave between them.

FlowTxIDs == 1..MaxFlowTx

\* the record ReadCredential returned, serialized, parsed and serialized again
\* on its way into the argument of StoreCredentialForOrg2
Relay(cred) == jsonMarshal(cred)

FlowAt(f, pc) == f \in DOMAIN flows /\ flows[f].pc = pc

\* a request with a credID arrives (one without is answered 400 at once)
StartFlow ==
    /\ Len(flows) < MaxFlows
    /\ \E id \in ScenarioIDs, route \in {"/share", "/revoke"} :
           flows' = Append(flows, [route |-> route, id |-> id, cred |-> Nil,
                                   pc |-> IF route = "/revoke" THEN "revoke" ELSE "read"])
    /\ UNCHANGED <<pdc, events, chain, ret, pending>>

\* /revoke, step 1: RevokeCredential as Org1, endorsed, submitted and committed
FlowRevoke ==
    /\ Idle
    /\ \E f \in DOMAIN flows :
           /\ FlowAt(f, "revoke")
           /\ LET ctx0 == Ctx("Org1MSP", 0) IN
              IF RevokeCredential(ctx0, flows[f].id).err # "ok"
                THEN /\ Invoke("RevokeCredential", ctx0, flows[f].id,
                               RevokeCredential(ctx0, flows[f].id))
                     /\ flows' = [flows EXCEPT ![f].pc = "failed"]
                ELSE \E tx \in FlowTxIDs \ UsedTxIDs :
                       /\ Invoke("RevokeCredential", Ctx("Org1MSP", tx), flows[f].id,
                                 RevokeCredential(Ctx("Org1MSP", tx), flows[f].id))
                       /\ flows' = [flows EXCEPT ![f].pc = "read"]
    /\ UNCHANGED pending

\* both routes: ReadCredential evaluated as Org1, the result kept for the next step
FlowRead ==
    /\ Idle
    /\ \E f \in DOMAIN flows :
           /\ FlowAt(f, "read")
           /\ LET o == ReadCredential(Ctx("Org1MSP", 0), flows[f].id) IN
              /\ Invoke("ReadCredential", Ctx("Org1MSP", 0), flows[f].id, o)
              /\ flows' = IF o.err # "ok" THEN [flows EXCEPT ![f].pc = "failed"]
                          ELSE [flows EXCEPT ![f].pc = "store", ![f].cred = o.val]
    /\ UNCHANGED pending

\* both routes: StoreCredentialForOrg2 as Org2 with the record read before,
\* endorsed, submitted and committed; then the success response
FlowStore ==
    /\ Idle
    /\ \E f \in DOMAIN flows :
           /\ FlowAt(f, "store")
           /\ LET ctx0 == Ctx("Org2MSP", 0)
                  p    == Relay(flows[f].cred[1])
              IN
              IF StoreCredentialForOrg2(ctx0, p).err # "ok"
                THEN /\ Invoke(StoreFn, ctx0, p, StoreCredentialForOrg2(ctx0, p))
                     /\ flows' = [flows EXCEPT ![f].pc = "failed"]
                ELSE \E tx \in FlowTxIDs \ UsedTxIDs :
                       /\ Invoke(StoreFn, Ctx("Org2MSP", tx), p,
                                 StoreCredentialForOrg2(Ctx("Org2MSP", tx), p))
                       /\ flows' = [flows EXCEPT ![f].pc = "done"]
    /\ UNCHANGED pending

\* POST /issue
FlowIssue ==
    IssueBy({"Org1MSP"}, { Fields(id, t) : id \in ScenarioIDs, t \in FieldTuples }, FlowTxIDs)

NextFlows == FlowIssue \/ StartFlow \/ FlowRevoke \/ FlowRead \/ FlowStore \/ Respond

SpecFlows == Init /\ [][NextFlows]_vars

\* ------------------------------------------------------------------ claims

\* the payload as the chaincode decodes it
Decoded(p) == jsonUnmarshal(p)[1]

\* the supplied digest is not the digest of the payload's own seven fields
DigestDiffers(p) == Decoded(p).Hash # sha256Hex(canonicalString(Decoded(p)))

SameFields(x, y) == \A i \in 1..Len(HashedFields) : x[HashedFields[i]] = y[HashedFields[i]]

\* a share by the verifier organization of a JSON payload whose digest differs
TamperedShare(r) ==
    /\ r.fn = StoreFn
    /\ r.msp = "Org2MSP"
    /\ r.arg # BadJSON
    /\ DigestDiffers(r.arg)

\* C1, as claimed: a share by the verifier organization of a payload whose supplied
\* digest differs from the digest recomputed over its fields (a stale digest, or
\* none) fails with an integrity error and changes no private entry and no event.
C1_TamperedShareIsIntegrityError ==
    [][ TamperedShare(ret') =>
          /\ ret'.err = "IntegrityError"
          /\ UNCHANGED <<pdc, events, chain>> ]_vars

\* C1, amended: such a share fails and changes no private entry and no event; the
\* error is an integrity error when the payload names a credential, and a
\* validation error when its id is empty (the id is checked before the digest).
C1_TamperedShareRejected ==
    [][ TamperedShare(ret') =>
          /\ ret'.err = IF Decoded(ret'.arg).CredID = EmptyStr
                          THEN "ValidationError" ELSE "IntegrityError"
          /\ UNCHANGED <<pdc, events, chain>> ]_vars

\* a stale digest is refused for a credential the verifier already holds a copy of
C1_Witness ==
    /\ TamperedShare(ret)
    /\ ret.err = "IntegrityError"
    /\ ret.arg.Hash # NoHash
    /\ ret.arg.CredID \in DOMAIN pdc[org2PDC]

\* the credentials a caller can have issued, as stored
SubmittedFields == { jsonMarshal(a) : a \in IssueArgs }

\* C2: the hash check detects any modification: two records that differ in one of
\* the seven fields, the delimiter included among the characters, have different
\* canonical strings, so no accepted payload carries the digest of another record.
C2_AnyModificationDetected ==
    (ret.fn = StoreFn /\ ret.err = "ok") =>
        \A q \in SubmittedFields :
            ~SameFields(q, Decoded(ret.arg)) =>
                /\ canonicalString(q) # canonicalString(Decoded(ret.arg))
                /\ sha256Hex(canonicalString(q)) # Decoded(ret.arg).Hash

\* C3: every record of the verifier collection carries the digest of its own
\* seven fields.
C3_VerifierDigestMatches ==
    \A id \in DOMAIN pdc[org2PDC] :
        pdc[org2PDC][id].Hash = sha256Hex(canonicalString(pdc[org2PDC][id]))

\* a copy was accepted from a payload that carried a non-UTF-8 byte
C3_Witness ==
    /\ ret.fn = StoreFn
    /\ ret.err = "ok"
    /\ ~ValidUTF8(ret.arg.GPA)
    /\ ret.arg.CredID \in DOMAIN pdc[org2PDC]

\* C4: IssueCredential for an id the issuer collection holds fails with a conflict
\* error, leaves the stored record as it is, revoked or not, and writes no event.
C4_DuplicateIssueConflicts ==
    [][ (ret'.fn = "IssueCredential" /\ ret'.arg.CredID \in DOMAIN pdc[org1PDC]) =>
          /\ ret'.err = "ConflictError"
          /\ UNCHANGED <<pdc, events, chain>> ]_vars

\* a second issue of a revoked credential, with other fields, was refused
C4_Witness ==
    /\ ret.fn = "IssueCredential"
    /\ ret.err = "ConflictError"
    /\ pdc[org1PDC][ret.arg.CredID].Status = "revoked"
    /\ ~SameFields(jsonMarshal(ret.arg), pdc[org1PDC][ret.arg.CredID])

\* C5: IssueCredential is issuer-only: invoked by another organization it fails and
\* writes nothing to the issuer collection or the audit trail (any error is taken
\* for the refusal here, so that only an issue that goes through refutes it).
C5_IssueIsIssuerOnly ==
    [][ (ret'.fn = "IssueCredential" /\ ret'.msp # "Org1MSP") =>
          /\ ret'.err # "ok"
          /\ UNCHANGED <<pdc, events, chain>> ]_vars

\* C6: ReadCredential is issuer-only: invoked by another organization it fails and
\* returns no record of the issuer collection (any error is taken for the refusal).
C6_ReadIsIssuerOnly ==
    (ret.fn = "ReadCredential" /\ ret.msp # "Org1MSP") =>
        /\ ret.err # "ok"
        /\ ret.val = Nil

\* an invocation by an organization other than the one the function is for
CrossOrgCall(r) ==
    \/ r.fn \in {StoreFn, "VerifyCredential", "VerifyCredentialIntegrity"} /\ r.msp # "Org2MSP"
    \/ r.fn = "RevokeCredential" /\ r.msp # "Org1MSP"

\* C7: StoreCredentialForOrg2, VerifyCredential and VerifyCredentialIntegrity by a
\* caller outside the verifier organization, and RevokeCredential by a caller
\* outside the issuer organization, get an authorization error whether or not the
\* record exists, return nothing, and change no private entry and no event.
C7_CrossOrgCallsRefused ==
    [][ CrossOrgCall(ret') =>
          /\ ret'.err = "AuthorizationError"
          /\ ret'.val = Nil
          /\ UNCHANGED <<pdc, events, chain>> ]_vars

\* the issuer organization asked for a copy the verifier collection holds
C7_Witness ==
    /\ ret.fn = "VerifyCredential"
    /\ ret.msp = "Org1MSP"
    /\ ret.err = "AuthorizationError"
    /\ ret.arg \in DOMAIN pdc[org2PDC]

\* C8: revocation is terminal in both collections: a stored copy whose status is
\* revoked is never followed by that copy with status issued.
C8_RevocationTerminal ==
    [][ \A coll \in DOMAIN pdc : \A id \in DOMAIN pdc[coll] :
          pdc[coll][id].Status = "revoked" =>
              /\ id \in DOMAIN pdc'[coll]
              /\ pdc'[coll][id].Status # "issued" ]_vars

\* C9: a successful RevokeCredential changes the status of the issuer's record and
\* nothing else: its digest, its seven fields, its owner and shared-with stay, no
\* other record of the issuer collection changes, and the verifier collection,
\* its copy of the same id included, stays as it was.
C9_RevokeChangesStatusOnly ==
    [][ (ret'.fn = "RevokeCredential" /\ ret'.err = "ok") =>
          /\ pdc'[org2PDC] = pdc[org2PDC]
          /\ DOMAIN pdc'[org1PDC] = DOMAIN pdc[org1PDC]
          /\ \A id \in DOMAIN pdc[org1PDC] :
                pdc'[org1PDC][id] =
                    IF id = ret'.arg THEN [pdc[org1PDC][id] EXCEPT !.Status = "revoked"]
                    ELSE pdc[org1PDC][id] ]_vars

\* a credential was revoked while the verifier held a copy of it, still issued
C9_Witness ==
    /\ ret.fn = "RevokeCredential"
    /\ ret.err = "ok"
    /\ ret.arg \in DOMAIN pdc[org2PDC]
    /\ pdc[org1PDC][ret.arg].Status = "revoked"
    /\ pdc[org2PDC][ret.arg].Status = "issued"

\* the actions committed for a credential, in commit order
ActionsOf(id) ==
    LET ks == SelectSeq(chain, LAMBDA k : k[2] = id)
    IN  [i \in 1..Len(ks) |-> events[ks[i]].Action]

\* C10: the stale-copy scenario.  For an issued credential, with every share a
\* relay of what ReadCredential returns: VerifyCredentialIntegrity finds nothing
\* before the first share; after a share it reports a valid digest and the status
\* the issuer's record had at the last share, so issued after a revocation that
\* was not shared again, and revoked once the revoked record has been shared.
C10_StaleCopyScenario ==
    (ret.fn = "VerifyCredentialIntegrity" /\ ret.arg \in DOMAIN pdc[org1PDC]) =>
        LET acts   == ActionsOf(ret.arg)
            shares == { i \in 1..Len(acts) : acts[i] = "SHARE_TO_ORG2" }
        IN  IF shares = {} THEN ret.err = "NotFoundError"
            ELSE LET last == CHOOSE i \in shares : \A j \in shares : j <= i IN
                 /\ ret.err = "ok"
                 /\ ret.val[1].IsHashValid
                 /\ ret.val[1].Status =
                        IF \E j \in 1..last : acts[j] = "REVOKE" THEN "revoked" ELSE "issued"

\* issued, shared, revoked, shared again, and the report says revoked
C10_Witness ==
    /\ ActionsOf(c1) = <<"ISSUE", "SHARE_TO_ORG2", "REVOKE", "SHARE_TO_ORG2">>
    /\ ret.fn = "VerifyCredentialIntegrity"
    /\ ret.err = "ok"
    /\ ret.val[1].IsHashValid
    /\ ret.val[1].Status = "revoked"

\* the events committed for a credential, in commit order
CommittedEvents(id) ==
    LET ks == SelectSeq(chain, LAMBDA k : k[2] = id)
    IN  [i \in 1..Len(ks) |-> events[ks[i]]]

\* C11: ListHistory returns the events of the id in the order in which their
\* transactions committed, whatever ids the transactions have: after issue,
\* share and revoke of one credential, those three events in that order.
C11_HistoryInCommitOrder ==
    (ret.fn = "ListHistory" /\ ret.err = "ok") => ret.val[1] = CommittedEvents(ret.arg)

Mutating == {"IssueCredential", StoreFn, "RevokeCredential"}

\* the credential an invocation of a mutating function is about
RecordOf(r) ==
    IF r.fn = "IssueCredential" THEN r.arg.CredID
    ELSE IF r.fn = StoreFn THEN Decoded(r.arg).CredID
    ELSE r.arg

ActionOf(fn) ==
    IF fn = "IssueCredential" THEN "ISSUE"
    ELSE IF fn = StoreFn THEN "SHARE_TO_ORG2" ELSE "REVOKE"

EventsOf(evs, id) == { k \in DOMAIN evs : k[2] = id }

\* C12: a successful IssueCredential, StoreCredentialForOrg2 or RevokeCredential
\* adds exactly one event, under the credential of the call, with the action of
\* the function and the caller's MSP id; a failed call and a query add none.  So
\* the events of an id grow by one with each successful mutation of that id.
C12_OneEventPerMutation ==
    [][ IF ret'.fn \in Mutating /\ ret'.err = "ok"
          THEN \E k \in DOMAIN events' \ DOMAIN events :
                  /\ DOMAIN events' = DOMAIN events \cup {k}
                  /\ k[2] = RecordOf(ret')
                  /\ events'[k].Action = ActionOf(ret'.fn)
                  /\ events'[k].MSPID = ret'.msp
                  /\ Cardinality(EventsOf(events', k[2])) = Cardinality(EventsOf(events, k[2])) + 1
          ELSE DOMAIN events' = DOMAIN events ]_vars

\* the third mutation of a credential, by the verifier organization, is its third event
C12_Witness ==
    /\ ret.fn = StoreFn
    /\ ret.err = "ok"
    /\ Cardinality(EventsOf(events, RecordOf(ret))) = 3
    /\ \E k \in EventsOf(events, RecordOf(ret)) :
          events[k].Action = "SHARE_TO_ORG2" /\ events[k].MSPID = "Org2MSP"

\* C13: the audit trail is append-only: an event that is in the trail stays in it,
\* under the same key and with the same content, whatever is invoked next.
C13_AuditAppendOnly ==
    [][ \A k \in DOMAIN events : k \in DOMAIN events' /\ events'[k] = events[k] ]_vars

\* the same action was committed twice for one credential, and both events are there
C13_Witness ==
    \E k1, k2 \in DOMAIN events :
        /\ k1 # k2
        /\ k1[2] = k2[2]
        /\ events[k1].Action = events[k2].Action

IssueEventsOf(id) == { k \in EventsOf(events, id) : events[k].Action = "ISSUE" }

\* C14: of the IssueCredential transactions for one id that were simulated while
\* the id was absent, at most one commits: one that is validated after the id has
\* been written ends in a conflict and changes neither the record nor the trail,
\* and a stored credential has exactly one ISSUE event.
C14_RacingIssueOneCommits ==
    /\ [][ (ret'.fn = "IssueCredential" /\ ret'.arg.CredID \in DOMAIN pdc[org1PDC]) =>
             /\ ret'.err \in {"ConflictError", "MVCC_READ_CONFLICT"}
             /\ UNCHANGED <<pdc, events, chain>> ]_vars
    /\ [](\A id \in DOMAIN pdc[org1PDC] : Cardinality(IssueEventsOf(id)) = 1)

\* the loser of a race, with other fields than the winner's, ended in a read conflict
C14_Witness ==
    /\ ret.fn = "IssueCredential"
    /\ ret.err = "MVCC_READ_CONFLICT"
    /\ ret.arg.CredID \in DOMAIN pdc[org1PDC]
    /\ ~SameFields(jsonMarshal(ret.arg), pdc[org1PDC][ret.arg.CredID])
    /\ Cardinality(IssueEventsOf(ret.arg.CredID)) = 1

FlowsFinished == \A f \in DOMAIN flows : flows[f].pc \in {"done", "failed"}

\* C15: POST /revoke marks the record revoked and syncs the verifier: once a
\* /revoke request has answered success and no request is in progress, the
\* verifier's copy of the credential has status revoked, however the steps of the
\* /revoke and /share requests for that credential interleaved.
C15_RevokeFlowSyncsVerifier ==
    FlowsFinished =>
        \A f \in DOMAIN flows :
            (flows[f].route = "/revoke" /\ flows[f].pc = "done") =>
                /\ flows[f].id \in DOMAIN pdc[org2PDC]
                /\ pdc[org2PDC][flows[f].id].Status = "revoked"

\* C16, as claimed: ListHistory succeeds for a caller of any organization and for
\* any id, and returns a sequence, the empty one for an id without events.
C16_HistorySucceedsForAnyID ==
    ret.fn = "ListHistory" =>
        /\ ret.err = "ok"
        /\ ret.val # Nil
        /\ EventsOf(events, ret.arg) = {} => ret.val[1] = << >>

\* C16, amended: for an id that is valid UTF-8, ListHistory succeeds for a caller
\* of any organization and returns a sequence holding each event of the id once,
\* the empty sequence when there is none; for an id that is not valid UTF-8 it
\* fails with the error of the partial-key query and returns nothing.
C16_HistoryAlwaysASequence ==
    ret.fn = "ListHistory" =>
        IF ValidUTF8(ret.arg)
          THEN /\ ret.err = "ok"
               /\ ret.val # Nil
               /\ Len(ret.val[1]) = Cardinality(EventsOf(events, ret.arg))
               /\ { ret.val[1][i] : i \in 1..Len(ret.val[1]) } =
                      { events[k] : k \in EventsOf(events, ret.arg) }
          ELSE /\ ret.err = "StoreError"
               /\ ret.val = Nil

\* the verifier organization asked for an id without events, while another id
\* has some, and got the empty sequence
C16_Witness ==
    /\ ret.fn = "ListHistory"
    /\ ret.msp = "Org2MSP"
    /\ ret.err = "ok"
    /\ ret.val = << << >> >>
    /\ events # << >>

HasEvent(id, action) == \E k \in EventsOf(events, id) : events[k].Action = action

\* no stored record is without the event of the mutation that put it there
MutationsHaveEvents ==
    /\ \A id \in DOMAIN pdc[org1PDC] :
          /\ HasEvent(id, "ISSUE")
          /\ pdc[org1PDC][id].Status = "revoked" => HasEvent(id, "REVOKE")
    /\ \A id \in DOMAIN pdc[org2PDC] : HasEvent(id, "SHARE_TO_ORG2")

\* C17: a mutating transaction commits all of its writes or none: one that returns
\* an error, the error of the audit append after the private write included,
\* changes no collection and no event; a step that changes a collection adds the
\* event of that call; and every stored record has the events of its mutations.
C17_AllOrNothing ==
    /\ [][ /\ ret'.err # "ok" => UNCHANGED <<pdc, events, chain>>
           /\ pdc' # pdc =>
                 \E k \in DOMAIN events' \ DOMAIN events :
                     k[2] = RecordOf(ret') /\ events'[k].Action = ActionOf(ret'.fn) ]_vars
    /\ []MutationsHaveEvents

\* the audit append of an IssueCredential failed after its private write, and
\* the record is not in the issuer's collection
C17_Witness ==
    /\ ret.fn = "IssueCredential"
    /\ ret.err = "StoreError"
    /\ IssueCredential(Ctx(ret.msp, 0), ret.arg).writes # {}
    /\ ret.arg.CredID \notin DOMAIN pdc[org1PDC]
    /\ events # << >>

\* C18: a successful IssueCredential puts into the issuer's collection, under the
\* id, a record with status issued, owner the issuer organization, shared-with
\* empty, the seven fields as passed, and the digest the chaincode computes over
\* those fields; nothing the caller supplies as a digest has a part in it.
C18_IssueStoresComputedRecord ==
    [][ (ret'.fn = "IssueCredential" /\ ret'.err = "ok") =>
          /\ ret'.arg.CredID \in DOMAIN pdc'[org1PDC]
          /\ pdc'[org1PDC][ret'.arg.CredID] =
                Credential(ret'.arg, sha256Hex(canonicalString(ret'.arg)),
                           "issued", "Org1MSP", "")
          /\ pdc'[org1PDC][ret'.arg.CredID].Hash =
                sha256Hex(canonicalString(pdc'[org1PDC][ret'.arg.CredID])) ]_vars

\* C19: every record of the verifier's collection has shared-with equal to
\* Org2MSP, whatever the payload carried, and StoreCredentialForOrg2 is idempotent
\* on the store: applied once more with the payload it has just stored, it leaves
\* the verifier's collection as it is.
C19_SharedWithVerifierIdempotent ==
    /\ [](\A id \in DOMAIN pdc[org2PDC] : pdc[org2PDC][id].SharedWithMSP = "Org2MSP")
    /\ [][ (ret'.fn = StoreFn /\ ret'.err = "ok") =>
             Apply(pdc'[org2PDC], org2PDC,
                   StoreCredentialForOrg2(Ctx(ret'.msp, 0), ret'.arg).writes) = pdc'[org2PDC] ]_vars

\* a payload with an empty shared-with was stored for the second time
C19_Witness ==
    /\ ret.fn = StoreFn
    /\ ret.err = "ok"
    /\ ret.arg.SharedWithMSP = ""
    /\ pdc[org2PDC][RecordOf(ret)].SharedWithMSP = "Org2MSP"
    /\ Cardinality({ k \in EventsOf(events, RecordOf(ret)) :
                        events[k].Action = "SHARE_TO_ORG2" }) = 2

\* C20: every record of the issuer's collection has the digest of its own seven
\* fields, and its id, its seven fields and its owner stay as issued whatever is
\* invoked afterwards.
C20_IssuerHashStable ==
    /\ [](\A id \in DOMAIN pdc[org1PDC] :
             pdc[org1PDC][id].Hash = sha256Hex(canonicalString(pdc[org1PDC][id])))
    /\ [][ \A id \in DOMAIN pdc[org1PDC] :
             /\ id \in DOMAIN pdc'[org1PDC]
             /\ SameFields(pdc[org1PDC][id], pdc'[org1PDC][id])
             /\ pdc'[org1PDC][id].OwnerMSP = pdc[org1PDC][id].OwnerMSP ]_vars

\* an IssueCredential with an empty id, or a StoreCredentialForOrg2 of a JSON
\* payload whose id is empty
EmptyIDCall(r) ==
    \/ r.fn = "IssueCredential" /\ r.arg.CredID = EmptyStr
    \/ r.fn = StoreFn /\ r.arg # BadJSON /\ Decoded(r.arg).CredID = EmptyStr

\* the caller is of the organization the function is for
OwnOrgCall(r) ==
    \/ r.fn = "IssueCredential" /\ r.msp = "Org1MSP"
    \/ r.fn = StoreFn /\ r.msp = "Org2MSP"

\* C21: IssueCredential with an empty id and StoreCredentialForOrg2 with a payload
\* whose id is empty fail and write nothing to either collection or to the audit
\* trail, with a validation error for a caller of the function's own
\* organization; no record is ever stored under the empty id.
C21_EmptyIDRefused ==
    /\ [][ EmptyIDCall(ret') =>
             /\ ret'.err # "ok"
             /\ OwnOrgCall(ret') => ret'.err = "ValidationError"
             /\ UNCHANGED <<pdc, events, chain>> ]_vars
    /\ [](\A coll \in DOMAIN pdc : EmptyStr \notin DOMAIN pdc[coll])

\* the verifier organization's payload had the digest of its fields and no id
C21_Witness ==
    /\ ret.fn = StoreFn
    /\ ret.msp = "Org2MSP"
    /\ ret.arg # BadJSON
    /\ Decoded(ret.arg).CredID = EmptyStr
    /\ ~DigestDiffers(ret.arg)
    /\ ret.err = "ValidationError"
    /\ pdc[org1PDC] # << >>

\* C22: every record of the verifier's collection is the copy of an issued one: its
\* id is in the issuer's collection, with the same seven fields and the same
\* digest, and its status is one the issuer's record has or had (issued, or
\* revoked when the issuer's record is revoked).
C22_VerifierCopiesWereIssued ==
    \A id \in DOMAIN pdc[org2PDC] :
        /\ id \in DOMAIN pdc[org1PDC]
        /\ SameFields(pdc[org2PDC][id], pdc[org1PDC][id])
        /\ pdc[org2PDC][id].Hash = pdc[org1PDC][id].Hash
        /\ pdc[org2PDC][id].Status \in {"issued", pdc[org1PDC][id].Status}

\* C23: VerifyCredentialIntegrity by the verifier organization for an id in the
\* verifier's collection succeeds with a report whose stored and computed digests
\* are equal, never with a mismatch, and it changes no state.
C23_IntegrityAlwaysMatches ==
    [][ (ret'.fn = "VerifyCredentialIntegrity" /\ ret'.msp = "Org2MSP"
            /\ ret'.arg \in DOMAIN pdc[org2PDC]) =>
          /\ ret'.err = "ok"
          /\ ret'.val[1].IsHashValid
          /\ ret'.val[1].StoredHash = ret'.val[1].ComputedHash
          /\ UNCHANGED <<pdc, events, chain>> ]_vars

\* the report of a copy that came from a payload with a non-UTF-8 byte, revoked
C23_Witness ==
    /\ ret.fn = "VerifyCredentialIntegrity"
    /\ ret.err = "ok"
    /\ ret.val[1].IsHashValid
    /\ ret.val[1].Status = "revoked"
    /\ pdc[org2PDC][ret.arg].GPA = <<REPL>>

\* the positions in commit order of the events of an id with an action
PositionsOf(id, action) ==
    { i \in 1..Len(chain) : chain[i][2] = id /\ events[chain[i]].Action = action }

\* C24: every REVOKE event of an id comes, in commit order, after exactly one
\* ISSUE event of that id, and no id has more than one ISSUE event.
C24_RevokeFollowsOneIssue ==
    \A id \in { k[2] : k \in DOMAIN events } :
        LET issues == PositionsOf(id, "ISSUE") IN
        /\ Cardinality(issues) <= 1
        /\ \A r \in PositionsOf(id, "REVOKE") :
              Cardinality({ i \in issues : i < r }) = 1

\* issued once and revoked twice
C24_Witness ==
    /\ Cardinality(PositionsOf(c1, "ISSUE")) = 1
    /\ Cardinality(PositionsOf(c1, "REVOKE")) = 2

\* a RevokeCredential that succeeded on a record that was already revoked
RepeatedRevoke ==
    /\ ret'.fn = "RevokeCredential"
    /\ ret'.err = "ok"
    /\ pdc[org1PDC][ret'.arg].Status = "revoked"

\* C25, as claimed: RevokeCredential on a revoked record leaves the issuer's record
\* as it is and adds no REVOKE event, so that no id has more than one.
C25_RepeatedRevokeSilent ==
    /\ [][ RepeatedRevoke => (pdc' = pdc /\ events' = events) ]_vars
    /\ [](\A k \in DOMAIN events : Cardinality(PositionsOf(k[2], "REVOKE")) <= 1)

\* C25, amended: RevokeCredential on a revoked record succeeds and leaves both
\* collections as they are, and it adds one more REVOKE event for the id.
C25_RepeatedRevokeKeepsRecord ==
    [][ RepeatedRevoke =>
          /\ pdc' = pdc
          /\ \E k \in DOMAIN events' \ DOMAIN events :
                /\ DOMAIN events' = DOMAIN events \cup {k}
                /\ k[2] = ret'.arg
                /\ events'[k].Action = "REVOKE" ]_vars

\* the second revocation of a credential went through, and the trail has both
C25_Witness ==
    /\ ret.fn = "RevokeCredential"
    /\ ret.err = "ok"
    /\ Cardinality(PositionsOf(ret.arg, "REVOKE")) = 2
    /\ pdc[org1PDC][ret.arg].Status = "revoked"

====
